---- MODULE Spec2Model ----
(***************************************************************************)
(* Model of hence.py: the context registry (HenceContext), the task        *)
(* descriptor (TaskConfig), the decorators task() and group(), the run     *)
(* entry points run_tasks() and run_group(), the graph builder setup_dag() *)
(* and the traversal execute_dag() with FunctionTypeExecutor.              *)
(*                                                                         *)
(* Strings that the code formats or concatenates (titles, run ids, task    *)
(* keys) are sequences of tokens; "{", "}" and "." are tokens of their     *)
(* own, every other token is a run of ordinary characters.                 *)
(***************************************************************************)
EXTENDS Integers, Sequences, FiniteSets, TLC

(***************************************************************************)
(* Bounds of the model.                                                    *)
(***************************************************************************)
\* longest task list and parameter list
MaxLen == 3
\* most vertices of a graph handed to execute_dag directly
MaxVertices == 3
\* number of direct calls of FunctionTypeExecutor.execute that reach the
\* callable
MaxExecs == 2
\* longest group member list
MaxMembers == 2
\* number of group(group_id) calls
MaxGroupCalls == 2
\* number of descriptors added through context_add directly
MaxAdds == 3

(***************************************************************************)
(* Inputs.                                                                 *)
(***************************************************************************)
\* execution contexts (contextvars contexts / threads)
MainCtx == "main"
Ctxs == {"main", "other"}

\* callables, identified by __name__; "bare" is declared without **kwargs
Fns == {"greet", "shout"}
AllFns == Fns \cup {"bare"}

\* parameter mappings, as sets of <<name, value>> pairs
EmptyParams == {}
NameA == {<<"name", "a">>}
Params == {EmptyParams, NameA}

\* the mapping run_group pairs with a missing position (fillvalue={})
FillValue == {}

\* run identifiers and group identifiers; <<>> is the empty string
RunIds == {<<>>, <<"r">>}
GroupIds == {<<>>, <<"g">>}

\* titles handed to task(); NoTitle is title=None
NoTitle == <<>>
TitleKey == <<"{", "fn_key", "}">>
TitleBad == <<"{", "owner", "}">>
TitleAuto == <<"{", "}">>
TitleChoices == {NoTitle, TitleKey, TitleBad, TitleAuto}

\* the value of an empty result slot
None == "None"

\* what a callable does with its keyword arguments: "shout" raises unless it
\* is given a name, "greet" always returns
Raises(f, params) == f = "shout" /\ params = EmptyParams
CallResult(f, params) ==
  IF f = "greet"
    THEN (IF params = EmptyParams THEN "hi" ELSE "hi a")
    ELSE None

\* function.__code__.co_varnames contains "kwargs"
HasKwargs(f) == f # "bare"

\* all sequences over S of length lo..hi
SeqsOf(S, lo, hi) == UNION {[1..n -> S] : n \in lo..hi}

(***************************************************************************)
(* Tables (Python dicts) as functions.                                     *)
(***************************************************************************)
EmptyTable == [x \in {} |-> x]
Put(tbl, k, v) == [x \in DOMAIN tbl \cup {k} |-> IF x = k THEN v ELSE tbl[x]]

\* str(index)
Digits == <<"0", "1", "2", "3", "4", "5", "6", "7", "8", "9">>
StrOfInt(i) == Digits[i + 1]

(***************************************************************************)
(* TaskConfig.task_key: f"{name}.{seq_id}" plus "." + run_id when the run  *)
(* id is non-empty.                                                        *)
(***************************************************************************)
TaskKey(fn, sid, rid) ==
  LET base == <<fn>> \o <<".", sid>>
  IN  IF rid # <<>> THEN base \o <<".">> \o rid ELSE base

\* task_key without the run id
task_key_no_run_id(d) == TaskKey(d.function, d.seq_id, <<>>)

\* task_key without the sequence id
task_key_no_seq_id(d) ==
  IF d.run_id # <<>> THEN <<d.function, ".">> \o d.run_id ELSE <<d.function>>

task_key(d) == TaskKey(d.function, d.seq_id, d.run_id)

(***************************************************************************)
(* State.                                                                  *)
(***************************************************************************)
VARIABLES
  registry,     \* the dict held by HenceContext.context: func, group, title
  addedIn,      \* history: <<table, key, ctx>> for every context_add made
  decorators,   \* the _internal closures returned by group(): their group_id
  groupOrigin,  \* history: per group, the group() call each member came from
  call,         \* the API call in progress or last made, with its arguments
  err,          \* "ok" or the exception the call raised
  pc,           \* position of the run: idle, loop, process, returned, raised
  dag,          \* DAG built by setup_dag: vertices and edges
  indegree,     \* dag_run: indegree_dict
  zero,         \* dag_run: vertices_zero_indegree
  batch,        \* dag_run: vertices_to_run still to be processed, in order
  results,      \* dag_run: vertices_processed_results of the current step
  final,        \* dag_run: vertices_final
  ret,          \* value returned to the caller of run_tasks / run_group
  trace         \* history: callable invocations and result writes, in order

vars == <<registry, addedIn, decorators, groupOrigin, call, err, pc, dag,
          indegree, zero, batch, results, final, ret, trace>>

regVars == <<registry, addedIn>>
groupVars == <<decorators, groupOrigin>>
dagVars == <<dag, indegree, zero, batch, results, final>>

CTX_FN_BASE == "func"
CTX_TI_BASE == "title"
CTX_GR_BASE == "group"

\* the default of the ContextVar: one dict with three empty tables
DefaultContext ==
  [func |-> EmptyTable, group |-> EmptyTable, title |-> EmptyTable]

NoDag == [vertices |-> {}, edges |-> {}]

Init ==
  /\ registry = DefaultContext
  /\ addedIn = {}
  /\ decorators = <<>>
  /\ groupOrigin = EmptyTable
  /\ call = [op |-> "none"]
  /\ err = "ok"
  /\ pc = "idle"
  /\ dag = NoDag
  /\ indegree = EmptyTable
  /\ zero = {}
  /\ batch = <<>>
  /\ results = <<>>
  /\ final = <<>>
  /\ ret = <<>>
  /\ trace = <<>>

(***************************************************************************)
(* HenceContext.                                                           *)
(***************************************************************************)
\* self.context.get() in context c. No code path calls self.context.set(),
\* so in every context the ContextVar yields its default: the one dict
\* created in _setup_context.
ContextVal(reg, c) == reg

\* context_get in the manner of dict.get(obj_key, ""): the empty string for
\* a key that is absent
context_get_lenient(reg, c, key, obj_key) ==
  LET context_val == ContextVal(reg, c)
  IN  IF key \notin DOMAIN context_val
        THEN [err |-> "KeyError", val |-> None]
      ELSE IF obj_key # <<>> /\ obj_key \notin DOMAIN context_val[key]
        THEN [err |-> "ok", val |-> <<>>]
      ELSE [err |-> "ok",
            val |-> IF obj_key # <<>>
                      THEN context_val[key][obj_key]
                      ELSE context_val[key]]

\* context_get(key, obj_key) in context c; obj_key is a string (a token
\* sequence), the empty string <<>> when the argument is omitted
context_get(reg, c, key, obj_key) ==
  LET context_val == ContextVal(reg, c)
  IN  IF key \notin DOMAIN context_val
        THEN [err |-> "KeyError", val |-> None]
      ELSE IF obj_key # <<>> /\ obj_key \notin DOMAIN context_val[key]
        THEN [err |-> "KeyError", val |-> None]
      ELSE [err |-> "ok",
            val |-> IF obj_key # <<>>
                      THEN context_val[key][obj_key]
                      ELSE context_val[key]]

\* context_add(obj) for a TaskConfig: plain dict assignment under task_key
context_add_task(reg, c, d) ==
  [reg EXCEPT !.func = Put(ContextVal(reg, c).func, task_key(d), d)]

\* context_add(obj) for a TitleConfig(task_key, title)
context_add_title(reg, c, name, title) ==
  [reg EXCEPT !.title = Put(ContextVal(reg, c).title, name, title)]

\* context_add(obj) for a GroupConfig
context_add_group(reg, c, gid, fn) ==
  LET groups == ContextVal(reg, c).group
  IN  IF gid \notin DOMAIN groups
        THEN [reg EXCEPT !.group = Put(groups, gid, <<fn>>)]
        ELSE [reg EXCEPT !.group = Put(groups, gid, Append(groups[gid], fn))]

(***************************************************************************)
(* TaskConfig.__init__                                                     *)
(***************************************************************************)
\* the object zip_longest puts in the place of a missing callable: a dict,
\* which has no __name__
FillFn == "{}"

\* fn.__name__, a one-token string
NameOf(fn) == <<fn>>

TaskConfigNew(reg, c, fn, params, rid, sid) ==
  IF sid = "" THEN [err |-> "ValueError", val |-> None]
  ELSE IF fn = FillFn THEN [err |-> "AttributeError", val |-> None]
  ELSE LET t == context_get(reg, c, CTX_TI_BASE, NameOf(fn))
       IN  IF t.err # "ok" THEN [err |-> t.err, val |-> None]
           ELSE [err |-> "ok",
                 val |-> [function |-> fn,
                          parameters |-> params,
                          run_id |-> rid,
                          seq_id |-> sid,
                          title |-> IF t.val # <<>> THEN t.val ELSE NameOf(fn),
                          result |-> None]]

(***************************************************************************)
(* str.format with keyword arguments on a token sequence, scanned left to  *)
(* right as CPython does: "{{" and "}}" are escapes, "{" name "}" is a     *)
(* replacement field looked up in the keyword arguments, "{}" and "{0}"    *)
(* are positional fields (there are no positional arguments), a brace      *)
(* without its partner is malformed.                                       *)
(***************************************************************************)
\* x in s, for a one-token x
Contains(s, x) == \E i \in 1..Len(s) : s[i] = x

\* index of the "}" closing the field opened at t[1], 0 if there is none
RECURSIVE FieldEnd(_, _)
FieldEnd(t, j) ==
  IF j > Len(t) \/ t[j] = "{" THEN 0
  ELSE IF t[j] = "}" THEN j
  ELSE FieldEnd(t, j + 1)

RECURSIVE Format(_, _)
Format(t, fields) ==
  IF t = <<>> THEN [err |-> "ok", out |-> <<>>]
  ELSE
    LET Lit(tok, n) ==
          LET r == Format(SubSeq(t, n + 1, Len(t)), fields)
          IN  IF r.err # "ok" THEN r ELSE [err |-> "ok", out |-> tok \o r.out]
    IN  IF t[1] = "{" THEN
          IF Len(t) >= 2 /\ t[2] = "{" THEN Lit(<<"{">>, 2)
          ELSE LET e == FieldEnd(t, 2)
               IN  IF e = 0 THEN [err |-> "ValueError", out |-> <<>>]
                   ELSE IF e = 2 \/ (e = 3 /\ Contains(Digits, t[2]))
                     THEN [err |-> "IndexError", out |-> <<>>]
                   ELSE IF e = 3 /\ t[2] \in DOMAIN fields
                     THEN Lit(fields[t[2]], 3)
                   ELSE [err |-> "KeyError", out |-> <<>>]
        ELSE IF t[1] = "}" THEN
          IF Len(t) >= 2 /\ t[2] = "}" THEN Lit(<<"}">>, 2)
          ELSE [err |-> "ValueError", out |-> <<>>]
        ELSE Lit(<<t[1]>>, 1)

\* the keyword arguments execute() hands to format
TitleFields(d) ==
  [fn_key |-> task_key(d),
   fn_name |-> NameOf(d.function),
   fn_run_id |-> d.run_id,
   fn_seq_id |-> <<d.seq_id>>]

(***************************************************************************)
(* task(title)(function)                                                   *)
(***************************************************************************)
Task(c, fn, title) ==
  /\ pc = "idle"
  /\ LET t_title == IF title # <<>> THEN title ELSE NameOf(fn)
     IN  /\ registry' = context_add_title(registry, c, NameOf(fn), t_title)
         /\ addedIn' = addedIn \cup {<<CTX_TI_BASE, NameOf(fn), c>>}
  /\ err' = IF HasKwargs(fn) THEN "ok" ELSE "TypeError"
  /\ call' = [op |-> "task", ctx |-> c, function |-> fn, title |-> title]
  /\ UNCHANGED <<groupVars, pc, dagVars, ret, trace>>

(***************************************************************************)
(* setup_dag and the start of paradag's dag_run                            *)
(***************************************************************************)
\* the set of elements of a sequence
Range(s) == {s[i] : i \in 1..Len(s)}

\* setup_dag with the edges pointing backwards: add_edge(v[i], v[i - 1])
setup_dag_reversed(vertices) ==
  [vertices |-> Range(vertices),
   edges |-> {<<vertices[i], vertices[i - 1]>> : i \in 2..Len(vertices)}]

\* setup_dag with the loop starting one too late: range(2, len(vertices))
setup_dag_late(vertices) ==
  [vertices |-> Range(vertices),
   edges |-> {<<vertices[i - 1], vertices[i]>> : i \in 3..Len(vertices)}]

\* setup_dag without the loop that adds the edges
setup_dag_no_edges(vertices) == [vertices |-> Range(vertices), edges |-> {}]

\* setup_dag(vertices): every key a vertex, an edge from each key to the next
setup_dag(vertices) ==
  [vertices |-> Range(vertices),
   edges |-> {<<vertices[i - 1], vertices[i]>> : i \in 2..Len(vertices)}]

\* DAG.indegree and DAG.all_starts
Indegree(g, v) == Cardinality({e \in g.edges : e[2] = v})
AllStarts(g) == {v \in g.vertices : Indegree(g, v) = 0}

(***************************************************************************)
(* run_tasks(fn_config_list, run_id)                                       *)
(***************************************************************************)
\* the for loop of run_tasks leaving the loop at the first tuple it cannot
\* use (break) and going on with the descriptors built so far
RECURSIVE SetupLoop_break(_, _, _, _, _, _)
SetupLoop_break(reg, c, fn_config_list, index, run_id, fn_list) ==
  IF index >= Len(fn_config_list)
    THEN [err |-> "ok", reg |-> reg, fn_list |-> fn_list]
  ELSE
    LET fn_config_tpl == fn_config_list[index + 1]
    IN  IF Len(fn_config_tpl) # 2
          THEN [err |-> "ok", reg |-> reg, fn_list |-> fn_list]
        ELSE
          LET fn_config == TaskConfigNew(reg, c, fn_config_tpl[1],
                                         fn_config_tpl[2], run_id,
                                         StrOfInt(index))
          IN  IF fn_config.err # "ok"
                THEN [err |-> "ok", reg |-> reg, fn_list |-> fn_list]
                ELSE SetupLoop_break(context_add_task(reg, c, fn_config.val),
                                     c, fn_config_list, index + 1, run_id,
                                     Append(fn_list, task_key(fn_config.val)))

\* the for loop of run_tasks from position index on: one TaskConfig per
\* tuple, added to the registry, its key appended to fn_list; the first
\* failure ends the loop and keeps what was added before it
RECURSIVE SetupLoop(_, _, _, _, _, _)
SetupLoop(reg, c, fn_config_list, index, run_id, fn_list) ==
  IF index >= Len(fn_config_list)
    THEN [err |-> "ok", reg |-> reg, fn_list |-> fn_list]
  ELSE
    LET fn_config_tpl == fn_config_list[index + 1]
    IN  IF Len(fn_config_tpl) > 2
          THEN [err |-> "ValueError", reg |-> reg, fn_list |-> fn_list]
        ELSE IF Len(fn_config_tpl) < 2
          THEN [err |-> "TypeError", reg |-> reg, fn_list |-> fn_list]
        ELSE
          LET fn_config == TaskConfigNew(reg, c, fn_config_tpl[1],
                                         fn_config_tpl[2], run_id,
                                         StrOfInt(index))
          IN  IF fn_config.err # "ok"
                THEN [err |-> fn_config.err, reg |-> reg, fn_list |-> fn_list]
                ELSE SetupLoop(context_add_task(reg, c, fn_config.val), c,
                               fn_config_list, index + 1, run_id,
                               Append(fn_list, task_key(fn_config.val)))

\* the body of run_tasks up to the first iteration of dag_run
RunTasksBody(c, fn_config_list, run_id) ==
  LET s == SetupLoop(registry, c, fn_config_list, 0, run_id, <<>>)
      _dag == setup_dag(s.fn_list)
  IN  /\ registry' = s.reg
      /\ addedIn' = addedIn \cup {<<CTX_FN_BASE, k, c>> : k \in Range(s.fn_list)}
      /\ IF s.err # "ok" \/ s.fn_list = <<>>
           THEN /\ pc' = "raised"
                /\ err' = IF s.err # "ok" THEN s.err ELSE "TypeError"
                /\ dag' = NoDag
                /\ indegree' = EmptyTable
                /\ zero' = {}
           ELSE /\ pc' = "loop"
                /\ err' = "ok"
                /\ dag' = _dag
                /\ indegree' = [v \in _dag.vertices |-> Indegree(_dag, v)]
                /\ zero' = AllStarts(_dag)
      /\ batch' = <<>>
      /\ results' = <<>>
      /\ final' = <<>>
      /\ ret' = <<>>
      /\ trace' = <<>>

RunTasks(c, fn_config_list, run_id) ==
  /\ pc = "idle"
  /\ call' = [op |-> "run_tasks", ctx |-> c,
              fn_config_list |-> fn_config_list, run_id |-> run_id]
  /\ RunTasksBody(c, fn_config_list, run_id)
  /\ UNCHANGED groupVars

(***************************************************************************)
(* FunctionTypeExecutor                                                    *)
(***************************************************************************)
\* execute that catches what the callable raises and returns None
execute_swallow(reg, c, task_key_) ==
  LET fn_cfg == reg.func[task_key_]
      render == Contains(fn_cfg.title, "{") /\ Contains(fn_cfg.title, "}")
      t_title == Format(fn_cfg.title, TitleFields(fn_cfg))
  IN  IF render /\ t_title.err # "ok"
        THEN [err |-> t_title.err, reg |-> reg, invoked |-> FALSE,
              params |-> EmptyParams, result |-> None]
        ELSE [err |-> "ok",
              reg |-> IF render
                        THEN context_add_task(reg, c,
                               [fn_cfg EXCEPT !.title = t_title.out])
                        ELSE reg,
              invoked |-> TRUE, params |-> fn_cfg.parameters,
              result |-> IF Raises(fn_cfg.function, fn_cfg.parameters)
                           THEN None
                           ELSE CallResult(fn_cfg.function, fn_cfg.parameters)]

\* execute that logs a failed title rendering and goes on with the title as
\* it is, without re-raising
execute_keep_title(reg, c, task_key_) ==
  LET fn_cfg == reg.func[task_key_]
      render == Contains(fn_cfg.title, "{") /\ Contains(fn_cfg.title, "}")
      t_title == Format(fn_cfg.title, TitleFields(fn_cfg))
      reg2 == IF render /\ t_title.err = "ok"
                THEN context_add_task(reg, c,
                       [fn_cfg EXCEPT !.title = t_title.out])
                ELSE reg
  IN  IF Raises(fn_cfg.function, fn_cfg.parameters)
        THEN [err |-> "CallableError", reg |-> reg2, invoked |-> TRUE,
              params |-> fn_cfg.parameters, result |-> None]
        ELSE [err |-> "ok", reg |-> reg2, invoked |-> TRUE,
              params |-> fn_cfg.parameters,
              result |-> CallResult(fn_cfg.function, fn_cfg.parameters)]

\* execute that stores what the callable returns in the descriptor itself
execute_stores_result(reg, c, task_key_) ==
  LET fn_cfg == reg.func[task_key_]
      render == Contains(fn_cfg.title, "{") /\ Contains(fn_cfg.title, "}")
      t_title == Format(fn_cfg.title, TitleFields(fn_cfg))
      rendered == IF render THEN [fn_cfg EXCEPT !.title = t_title.out]
                            ELSE fn_cfg
      value == CallResult(fn_cfg.function, fn_cfg.parameters)
  IN  IF render /\ t_title.err # "ok"
        THEN [err |-> t_title.err, reg |-> reg, invoked |-> FALSE,
              params |-> EmptyParams, result |-> None]
      ELSE IF Raises(fn_cfg.function, fn_cfg.parameters)
        THEN [err |-> "CallableError",
              reg |-> IF render THEN context_add_task(reg, c, rendered)
                                ELSE reg,
              invoked |-> TRUE, params |-> fn_cfg.parameters,
              result |-> None]
      ELSE [err |-> "ok",
            reg |-> context_add_task(reg, c,
                      [rendered EXCEPT !.result = value]),
            invoked |-> TRUE, params |-> fn_cfg.parameters,
            result |-> value]

\* execute(task_key): render the title, write it back, invoke the callable.
\* invoked tells whether the callable was called; reg is the registry the
\* call leaves behind, also when it raises.
execute(reg, c, task_key_) ==
  LET g == context_get(reg, c, CTX_FN_BASE, task_key_)
  IN  IF g.err # "ok"
        THEN [err |-> g.err, reg |-> reg, invoked |-> FALSE,
              params |-> EmptyParams, result |-> None]
      ELSE
        LET fn_cfg == g.val
            render == Contains(fn_cfg.title, "{") /\ Contains(fn_cfg.title, "}")
            t_title == Format(fn_cfg.title, TitleFields(fn_cfg))
        IN  IF render /\ t_title.err # "ok"
              THEN [err |-> t_title.err, reg |-> reg, invoked |-> FALSE,
                    params |-> EmptyParams, result |-> None]
            ELSE
              LET reg2 == IF render
                            THEN context_add_task(reg, c,
                                   [fn_cfg EXCEPT !.title = t_title.out])
                            ELSE reg
              IN  IF Raises(fn_cfg.function, fn_cfg.parameters)
                    THEN [err |-> "CallableError", reg |-> reg2,
                          invoked |-> TRUE, params |-> fn_cfg.parameters,
                          result |-> None]
                    ELSE [err |-> "ok", reg |-> reg2, invoked |-> TRUE,
                          params |-> fn_cfg.parameters,
                          result |-> CallResult(fn_cfg.function,
                                                fn_cfg.parameters)]

\* report_finish(vertices_result): the result of the first pair is stored
report_finish(reg, c, vertices_result) ==
  LET fn_key == vertices_result[1][1]
      fn_result == vertices_result[1][2]
      g == context_get(reg, c, CTX_FN_BASE, fn_key)
  IN  IF g.err # "ok"
        THEN [err |-> g.err, reg |-> reg]
        ELSE [err |-> "ok",
              reg |-> context_add_task(reg, c, [g.val EXCEPT !.result = fn_result])]

(***************************************************************************)
(* execute_dag: paradag's dag_run with the SequentialProcessor             *)
(***************************************************************************)
\* the orders in which a set can be iterated
Orders(S) == {s \in [1..Cardinality(S) -> S] : Range(s) = S}

\* loop head with work left: every idle start vertex is selected
DagSelect ==
  /\ pc = "loop"
  /\ zero # {}
  /\ \E order \in Orders(zero) : batch' = order
  /\ results' = <<>>
  /\ pc' = "process"
  /\ UNCHANGED <<regVars, groupVars, call, err, dag, indegree, zero, final,
                 ret, trace>>

\* loop head with nothing left: dag_run returns vertices_final
DagReturn ==
  /\ pc = "loop"
  /\ zero = {}
  /\ pc' = "returned"
  /\ ret' = final
  /\ UNCHANGED <<regVars, groupVars, call, err, dagVars, trace>>

\* SequentialProcessor.process, one vertex: execute(param(vertex)); an
\* exception leaves dag_run and run_tasks
Execute(c) ==
  /\ pc = "process"
  /\ batch # <<>>
  /\ LET vtx == Head(batch)
         r == execute(registry, c, vtx)
     IN  /\ registry' = r.reg
         /\ trace' = IF r.invoked
                       THEN Append(trace, [ev |-> "call", key |-> vtx,
                                           params |-> r.params])
                       ELSE trace
         /\ IF r.err # "ok"
              THEN /\ pc' = "raised"
                   /\ err' = r.err
                   /\ UNCHANGED <<batch, results>>
              ELSE /\ batch' = Tail(batch)
                   /\ results' = Append(results, <<vtx, r.result>>)
                   /\ UNCHANGED <<pc, err>>
  /\ UNCHANGED <<addedIn, groupVars, call, dag, indegree, zero, final, ret>>

\* the rest of one iteration of dag_run: report_finish, then the processed
\* vertices leave the start set and their successors may enter it
ReportFinish(c) ==
  /\ pc = "process"
  /\ batch = <<>>
  /\ LET r == report_finish(registry, c, results)
         processed == [i \in 1..Len(results) |-> results[i][1]]
         indegree2 == [v \in DOMAIN indegree |->
                         indegree[v] - Cardinality({i \in 1..Len(processed) :
                                          <<processed[i], v>> \in dag.edges})]
     IN  /\ registry' = r.reg
         /\ IF r.err # "ok"
              THEN /\ pc' = "raised"
                   /\ err' = r.err
                   /\ UNCHANGED <<indegree, zero, final, results, trace>>
              ELSE /\ pc' = "loop"
                   /\ trace' = Append(trace, [ev |-> "write",
                                              key |-> results[1][1],
                                              params |-> EmptyParams])
                   /\ final' = final \o processed
                   /\ indegree' = indegree2
                   /\ zero' = (zero \ Range(processed)) \cup
                              {v \in DOMAIN indegree :
                                 indegree[v] > 0 /\ indegree2[v] = 0}
                   /\ results' = <<>>
                   /\ UNCHANGED err
  /\ UNCHANGED <<addedIn, groupVars, call, dag, batch, ret>>

(***************************************************************************)
(* Runs of run_tasks in the main context.                                  *)
(***************************************************************************)
TaskLists == SeqsOf(Fns \X Params, 0, MaxLen)

Next ==
  \/ \E fn \in Fns, title \in TitleChoices : Task(MainCtx, fn, title)
  \/ \E lst \in TaskLists, rid \in RunIds : RunTasks(MainCtx, lst, rid)
  \/ DagSelect
  \/ Execute(MainCtx)
  \/ ReportFinish(MainCtx)
  \/ DagReturn

Spec == Init /\ [][Next]_vars

\* task lists with elements that are not (callable, parameters) pairs: a
\* tuple without the parameter mapping and a tuple with a third item
Malformed == {<<"greet">>, <<"shout", NameA, NameA>>}
ConfigLists == SeqsOf((Fns \X Params) \cup Malformed, 0, MaxLen)

NextSetup ==
  \/ \E fn \in Fns : Task(MainCtx, fn, NoTitle)
  \/ \E lst \in ConfigLists : RunTasks(MainCtx, lst, <<>>)
  \/ DagSelect
  \/ Execute(MainCtx)
  \/ ReportFinish(MainCtx)
  \/ DagReturn

SpecSetup == Init /\ [][NextSetup]_vars

\* run_tasks is one synchronous call: once it has started, the interpreter
\* goes on with the next step of dag_run until the call returns or raises
RunStep == DagSelect \/ Execute(MainCtx) \/ ReportFinish(MainCtx) \/ DagReturn

\* runs of run_tasks over tasks titled by default or with an unknown
\* placeholder, continued to their end
NextFair ==
  \/ \E fn \in Fns, title \in {NoTitle, TitleBad} : Task(MainCtx, fn, title)
  \/ \E lst \in TaskLists : RunTasks(MainCtx, lst, <<>>)
  \/ DagSelect
  \/ Execute(MainCtx)
  \/ ReportFinish(MainCtx)
  \/ DagReturn

SpecFair == Init /\ [][NextFair]_vars /\ WF_vars(RunStep)

(***************************************************************************)
(* group(group_id) and the decorator it returns                            *)
(***************************************************************************)
\* group(group_id): the existence check is made here, at call time; the
\* closure _internal it returns is kept in decorators
Group(c, group_id) ==
  /\ pc = "idle"
  /\ LET group_lst == context_get(registry, c, CTX_GR_BASE, <<>>).val
     IN  IF group_id \in DOMAIN group_lst
           THEN /\ err' = "ValueError"
                /\ UNCHANGED decorators
           ELSE /\ err' = "ok"
                /\ decorators' = Append(decorators, group_id)
  /\ call' = [op |-> "group", ctx |-> c, group_id |-> group_id]
  /\ UNCHANGED <<regVars, groupOrigin, pc, dagVars, ret, trace>>

\* _internal(fn) of the d-th group() call: context_add(GroupConfig(...))
GroupApply(c, d, fn) ==
  /\ pc = "idle"
  /\ d \in 1..Len(decorators)
  /\ LET group_id == decorators[d]
         members == IF group_id \in DOMAIN registry.group
                      THEN registry.group[group_id] ELSE <<>>
         origin == IF group_id \in DOMAIN groupOrigin
                     THEN groupOrigin[group_id] ELSE <<>>
     IN  /\ Len(members) < MaxMembers
         /\ registry' = context_add_group(registry, c, group_id, fn)
         /\ addedIn' = addedIn \cup {<<CTX_GR_BASE, group_id, c>>}
         /\ groupOrigin' = Put(groupOrigin, group_id, Append(origin, d))
  /\ err' = "ok"
  /\ call' = [op |-> "group_member", ctx |-> c, decorator |-> d,
              function |-> fn]
  /\ UNCHANGED <<decorators, pc, dagVars, ret, trace>>

(***************************************************************************)
(* run_group(group_id, task_params)                                        *)
(***************************************************************************)
\* zip in the place of zip_longest: stops at the shorter list
ZipShortest(fns, task_params) ==
  LET n == IF Len(fns) <= Len(task_params) THEN Len(fns) ELSE Len(task_params)
  IN  [i \in 1..n |-> <<fns[i], task_params[i]>>]

\* one pair per member, whatever the length of task_params: parameter
\* mappings beyond the last member are dropped
ZipMembers(fns, task_params) ==
  [i \in 1..Len(fns) |->
     <<fns[i], IF i <= Len(task_params) THEN task_params[i] ELSE FillValue>>]

\* list(zip_longest(fns, task_params, fillvalue={}))
ZipLongest(fns, task_params) ==
  LET n == IF Len(fns) >= Len(task_params) THEN Len(fns) ELSE Len(task_params)
  IN  [i \in 1..n |->
         <<IF i <= Len(fns) THEN fns[i] ELSE FillFn,
           IF i <= Len(task_params) THEN task_params[i] ELSE FillValue>>]

RunGroup(c, group_id, task_params) ==
  /\ pc = "idle"
  /\ LET groups == context_get(registry, c, CTX_GR_BASE, <<>>).val
     IN  IF group_id \notin DOMAIN groups
           THEN /\ pc' = "raised"
                /\ err' = "RuntimeError"
                /\ call' = [op |-> "run_group", ctx |-> c,
                            group_id |-> group_id,
                            task_params |-> task_params,
                            fn_config_list |-> <<>>, run_id |-> group_id]
                /\ UNCHANGED <<regVars, dagVars, ret, trace>>
           ELSE LET group_params == ZipLongest(groups[group_id], task_params)
                IN  /\ call' = [op |-> "run_group", ctx |-> c,
                                group_id |-> group_id,
                                task_params |-> task_params,
                                fn_config_list |-> group_params,
                                run_id |-> group_id]
                    /\ RunTasksBody(c, group_params, group_id)
  /\ UNCHANGED groupVars

(***************************************************************************)
(* Runs of run_group in the main context.                                  *)
(***************************************************************************)
\* parameter lists of every length up to MaxLen; each mapping given names "a"
ParamLists == {[i \in 1..n |-> NameA] : n \in 0..MaxLen}

\* every group identifier is registered by one group() call
NextGroup ==
  \/ \E fn \in Fns : Task(MainCtx, fn, NoTitle)
  \/ \E gid \in GroupIds :
       /\ gid \notin Range(decorators)
       /\ Group(MainCtx, gid)
  \/ \E d \in DOMAIN decorators, fn \in Fns : GroupApply(MainCtx, d, fn)
  \/ \E gid \in GroupIds, ps \in ParamLists : RunGroup(MainCtx, gid, ps)
  \/ DagSelect
  \/ Execute(MainCtx)
  \/ ReportFinish(MainCtx)
  \/ DagReturn

SpecGroup == Init /\ [][NextGroup]_vars

(***************************************************************************)
(* The registry used directly, from several execution contexts.            *)
(***************************************************************************)
\* TaskConfig(fn, params, rid, sid) followed by context_add of it, as on
\* every turn of the loop of run_tasks
AddTask(c, fn, params, run_id, index) ==
  /\ pc = "idle"
  /\ LET fn_config == TaskConfigNew(registry, c, fn, params, run_id,
                                    StrOfInt(index))
     IN  IF fn_config.err # "ok"
           THEN /\ err' = fn_config.err
                /\ UNCHANGED regVars
           ELSE /\ err' = "ok"
                /\ registry' = context_add_task(registry, c, fn_config.val)
                /\ addedIn' = addedIn \cup
                              {<<CTX_FN_BASE, task_key(fn_config.val), c>>}
  /\ call' = [op |-> "add_task", ctx |-> c, function |-> fn,
              parameters |-> params,
              key |-> TaskKey(fn, StrOfInt(index), run_id)]
  /\ UNCHANGED <<groupVars, pc, dagVars, ret, trace>>

\* at most MaxAdds distinct (table, key, context) additions are made
AddsLeft(entry) == Cardinality(addedIn \cup {entry}) <= MaxAdds

NextRegistry ==
  \/ \E c \in Ctxs, fn \in AllFns :
       /\ AddsLeft(<<CTX_TI_BASE, NameOf(fn), c>>)
       /\ Task(c, fn, NoTitle)
  \/ \E c \in Ctxs, fn \in Fns, params \in Params :
       /\ AddsLeft(<<CTX_FN_BASE, TaskKey(fn, StrOfInt(0), <<>>), c>>)
       /\ AddTask(c, fn, params, <<>>, 0)
  \/ \E c \in Ctxs :
       /\ Len(decorators) < MaxGroupCalls
       /\ Group(c, <<"g">>)
  \/ \E c \in Ctxs, d \in DOMAIN decorators, fn \in Fns :
       /\ AddsLeft(<<CTX_GR_BASE, decorators[d], c>>)
       /\ GroupApply(c, d, fn)

SpecRegistry == Init /\ [][NextRegistry]_vars

(***************************************************************************)
(* execute_dag(dag, SequentialProcessor(), FunctionTypeExecutor()) called  *)
(* with a graph the caller built over the keys of registered descriptors.  *)
(***************************************************************************)
\* the pairs of a sequence that point forwards
ForwardPairs(o) ==
  {<<o[p[1]], o[p[2]]>> :
     p \in {q \in (1..Len(o)) \X (1..Len(o)) : q[1] < q[2]}}

\* the DAG objects over at most MaxVertices of the keys K: DAG.add_edge
\* refuses an edge that closes a cycle, so every edge set is the subset of
\* the forward pairs of some order of the vertices
Dags(K) ==
  UNION {UNION {{[vertices |-> V, edges |-> E] :
                   E \in SUBSET ForwardPairs(o)} : o \in Orders(V)} :
           V \in {W \in SUBSET K : Cardinality(W) <= MaxVertices}}

\* is_dag is the outcome of isinstance(dag, DAG)
ExecuteDag(c, g, is_dag) ==
  /\ pc = "idle"
  /\ call' = [op |-> "execute_dag", ctx |-> c, dag |-> g, is_dag |-> is_dag]
  /\ IF ~is_dag
       THEN /\ pc' = "raised"
            /\ err' = "TypeError"
            /\ dag' = NoDag
            /\ indegree' = EmptyTable
            /\ zero' = {}
       ELSE /\ pc' = "loop"
            /\ err' = "ok"
            /\ dag' = g
            /\ indegree' = [v \in g.vertices |-> Indegree(g, v)]
            /\ zero' = AllStarts(g)
  /\ batch' = <<>>
  /\ results' = <<>>
  /\ final' = <<>>
  /\ ret' = <<>>
  /\ trace' = <<>>
  /\ UNCHANGED <<regVars, groupVars>>

\* sequence ids of the descriptors the caller adds
SeqIndexes == {0, 1}

NextDag ==
  \/ \E fn \in Fns : Task(MainCtx, fn, NoTitle)
  \/ \E fn \in Fns, params \in Params, index \in SeqIndexes :
       AddTask(MainCtx, fn, params, <<>>, index)
  \/ \E g \in Dags(DOMAIN registry.func), is_dag \in BOOLEAN :
       ExecuteDag(MainCtx, g, is_dag)
  \/ DagSelect
  \/ Execute(MainCtx)
  \/ ReportFinish(MainCtx)
  \/ DagReturn

SpecDag == Init /\ [][NextDag]_vars

(***************************************************************************)
(* FunctionTypeExecutor().execute(task_key) called on its own, as dag_run  *)
(* calls it for every vertex of every graph the key is part of.            *)
(***************************************************************************)
RenderErrors == {"KeyError", "IndexError", "ValueError"}

\* the call record keeps, for consecutive calls on one key, the title the
\* descriptor had before the first of them (original), the title it had
\* before this call (before) and the number of earlier calls that rendered
ExecuteKey(c, k) ==
  /\ pc = "idle"
  /\ Len(trace) < MaxExecs
  /\ LET r == execute(registry, c, k)
         known == k \in DOMAIN registry.func
         again == call.op = "execute" /\ call.key = k /\ call.renders > 0
         passed == r.invoked
     IN  /\ registry' = r.reg
         /\ err' = r.err
         /\ ret' = r.result
         /\ trace' = IF r.invoked
                       THEN Append(trace, [ev |-> "call", key |-> k,
                                           params |-> r.params])
                       ELSE trace
         /\ call' = [op |-> "execute", ctx |-> c, key |-> k,
                     original |-> IF again THEN call.original
                                  ELSE IF known THEN registry.func[k].title
                                  ELSE <<>>,
                     before |-> IF known THEN registry.func[k].title ELSE <<>>,
                     earlier |-> IF again THEN call.renders ELSE 0,
                     renders |-> (IF again THEN call.renders ELSE 0)
                                   + (IF passed THEN 1 ELSE 0)]
  /\ UNCHANGED <<addedIn, groupVars, pc, dagVars>>

\* run ids of the descriptors: a plain one and one with braces in it
BraceRunIds == {<<"r">>, <<"{", "x", "}">>}

NextRender ==
  \/ \E fn \in Fns, title \in {NoTitle, TitleKey} : Task(MainCtx, fn, title)
  \/ \E fn \in Fns, rid \in BraceRunIds : AddTask(MainCtx, fn, NameA, rid, 0)
  \/ \E k \in DOMAIN registry.func \cup {<<"greet", ".", "9">>} :
       ExecuteKey(MainCtx, k)

SpecRender == Init /\ [][NextRender]_vars

(***************************************************************************)
(* hence_config.context_get(key) and context_get(key, obj_key) called by   *)
(* the user of the registry.                                               *)
(***************************************************************************)
\* the default of the parameter obj_key: the empty string
DefaultObjKey == <<>>

\* given tells whether the caller passes obj_key at all
ContextGet(c, key, given, obj_key) ==
  /\ pc = "idle"
  /\ LET k == IF given THEN obj_key ELSE DefaultObjKey
         g == context_get(registry, c, key, k)
     IN  /\ err' = g.err
         /\ ret' = g.val
         /\ call' = [op |-> "context_get", ctx |-> c, table |-> key,
                     given |-> given, obj_key |-> k, before |-> registry]
  /\ UNCHANGED <<regVars, groupVars, pc, dagVars, trace>>

\* table names and keys asked for: known and unknown ones, and the empty
\* string
TableNames == {CTX_FN_BASE, CTX_TI_BASE, CTX_GR_BASE, "run"}
ObjKeys == {<<>>, <<"greet">>, <<"greet", ".", "0">>, <<"g">>, <<"shout">>}

NextGet ==
  \/ \E fn \in Fns : Task(MainCtx, fn, NoTitle)
  \/ \E fn \in Fns, params \in Params : AddTask(MainCtx, fn, params, <<>>, 0)
  \/ /\ <<"g">> \notin Range(decorators)
     /\ Group(MainCtx, <<"g">>)
  \/ \E d \in DOMAIN decorators, fn \in Fns : GroupApply(MainCtx, d, fn)
  \/ \E key \in TableNames, given \in BOOLEAN, obj_key \in ObjKeys :
       ContextGet(MainCtx, key, given, obj_key)

SpecGet == Init /\ [][NextGet]_vars

(***************************************************************************)
(* Vocabulary of the properties: the run in progress, seen from the        *)
(* arguments of the call that started it.                                  *)
(***************************************************************************)
\* the (callable, parameters) pairs the run was started with
RunList ==
  IF call.op \in {"run_tasks", "run_group"} THEN call.fn_config_list ELSE <<>>
RunId == IF call.op \in {"run_tasks", "run_group"} THEN call.run_id ELSE <<>>
RunLen == Len(RunList)
Positions == 0..(RunLen - 1)
FnAt(i) == RunList[i + 1][1]
ParamsAt(i) == RunList[i + 1][2]
\* the key of the descriptor built from the pair at position i
KeyAt(i) == TaskKey(FnAt(i), StrOfInt(i), RunId)
InputKeys == [i \in 1..RunLen |-> KeyAt(i - 1)]

Finished == pc \in {"returned", "raised"}
\* the run got past run-setup: every descriptor was built and added
SetupDone == pc # "idle" /\ dag # NoDag

\* the title the descriptor at position i is constructed with
TitleAt(i) == registry.title[NameOf(FnAt(i))]
AllRegistered == \A i \in Positions : NameOf(FnAt(i)) \in DOMAIN registry.title
AllReturnNormally == \A i \in Positions : ~Raises(FnAt(i), ParamsAt(i))

\* the title at position i goes through execute() without an error
TitleRenders(i) ==
  \/ ~(Contains(TitleAt(i), "{") /\ Contains(TitleAt(i), "}"))
  \/ Format(TitleAt(i),
            [fn_key |-> KeyAt(i), fn_name |-> NameOf(FnAt(i)),
             fn_run_id |-> RunId, fn_seq_id |-> <<StrOfInt(i)>>]).err = "ok"

\* the title has a replacement field that is none of the four known ones:
\* a field with another name, or a positional field
Recognised == {"fn_key", "fn_name", "fn_run_id", "fn_seq_id"}
BadPlaceholder(t) ==
  \E i \in 1..(Len(t) - 1) :
    /\ t[i] = "{"
    /\ (i = 1 \/ t[i - 1] # "{")
    /\ \/ t[i + 1] = "}"
       \/ /\ i + 2 <= Len(t)
          /\ t[i + 2] = "}"
          /\ t[i + 1] \notin Recognised \cup {"{", "}"}

IsCall(e) == e.ev = "call"
IsWrite(e) == e.ev = "write"
Calls == SelectSeq(trace, IsCall)
Writes == SelectSeq(trace, IsWrite)
\* the result of position i is in its registry descriptor
Stored(i) ==
  /\ KeyAt(i) \in DOMAIN registry.func
  /\ registry.func[KeyAt(i)].result = CallResult(FnAt(i), ParamsAt(i))
Empty(i) ==
  /\ KeyAt(i) \in DOMAIN registry.func
  /\ registry.func[KeyAt(i)].result = None

(***************************************************************************)
(* C1 as stated: for every non-empty list of N pairs whose callables are   *)
(* registered tasks that all return normally, run_tasks returns exactly N  *)
(* keys, the i-th being the key of the descriptor built from the i-th      *)
(* pair.                                                                   *)
(***************************************************************************)
C1_AsStated ==
  (call.op = "run_tasks" /\ Finished /\ RunLen > 0
     /\ AllRegistered /\ AllReturnNormally)
  => (pc = "returned" /\ ret = InputKeys)

(***************************************************************************)
(* C1 amended: for every non-empty list of N pairs whose callables are     *)
(* registered tasks that all return normally and whose titles all render   *)
(* without error, run_tasks returns exactly N keys, the i-th being the key *)
(* of the descriptor built from the i-th pair.                             *)
(***************************************************************************)
C1_ReturnsKeysInOrder ==
  (call.op = "run_tasks" /\ Finished /\ RunLen > 0
     /\ AllRegistered /\ AllReturnNormally
     /\ \A i \in Positions : TitleRenders(i))
  => (pc = "returned" /\ ret = InputKeys /\ Len(ret) = RunLen)

C1_Witness ==
  /\ call.op = "run_tasks" /\ pc = "returned"
  /\ RunLen >= 3 /\ ret = InputKeys
  /\ FnAt(0) # FnAt(1)
  /\ RunId # <<>>

(***************************************************************************)
(* C2: in a run of run_tasks the callables are invoked in input order, and *)
(* the callable at position i+1 is invoked only after the callable at      *)
(* position i has returned and report_finish has written its result to the *)
(* registry.                                                               *)
(***************************************************************************)
C2_InputOrder ==
  call.op = "run_tasks" =>
    /\ Len(Calls) <= RunLen
    /\ \A j \in 1..Len(Calls) : Calls[j].key = KeyAt(j - 1)
    /\ \A j \in 1..Len(Writes) : Writes[j].key = KeyAt(j - 1)
    /\ \A j \in 1..Len(trace) :
         IsCall(trace[j]) =>
           \* every earlier call is followed by its write before this call
           \A a \in 1..(j - 1) :
             IsCall(trace[a]) =>
               /\ a + 1 < j
               /\ trace[a + 1] = [ev |-> "write", key |-> trace[a].key,
                                  params |-> EmptyParams]
    /\ \A j \in 1..Len(Writes) : Stored(j - 1)

C2_Witness ==
  /\ call.op = "run_tasks"
  /\ Len(Calls) >= 3
  /\ Len(Writes) >= 2
  /\ pc = "process"

(***************************************************************************)
(* C3: if the callable at position k raises, the callable's own exception  *)
(* reaches the caller of run_tasks, the results of positions 0..k-1 are in *)
(* their registry descriptors, no callable at a position above k is        *)
(* invoked, and the descriptors at positions k and above have result None. *)
(***************************************************************************)
C3_AbortOnRaise ==
  call.op = "run_tasks" =>
    \A j \in 1..Len(trace) :
      \A k \in Positions :
        (IsCall(trace[j]) /\ trace[j].key = KeyAt(k)
           /\ Raises(FnAt(k), trace[j].params))
        => /\ j = Len(trace)
           /\ pc = "raised"
           /\ err = "CallableError"
           /\ \A i \in 0..(k - 1) : Stored(i)
           /\ \A i \in k..(RunLen - 1) : Empty(i)
           /\ \A e \in Range(trace) :
                \A i \in (k + 1)..(RunLen - 1) : e.key # KeyAt(i)

C3_Witness ==
  /\ call.op = "run_tasks" /\ pc = "raised" /\ err = "CallableError"
  /\ RunLen >= 3
  /\ Len(Calls) = 2
  /\ Raises(FnAt(1), ParamsAt(1))
  /\ Stored(0) /\ registry.func[KeyAt(0)].result # None

(***************************************************************************)
(* C9 as stated: if the title of the task at position k has a placeholder  *)
(* other than the four recognised fields, the run fails exactly when task  *)
(* k is about to execute: tasks 0..k-1 have executed and keep their        *)
(* results, the callable of k is never invoked, no later task runs, and    *)
(* the error reaches the caller.                                           *)
(***************************************************************************)
FailsAtTitleOf(k) ==
  /\ pc = "raised"
  /\ err \in {"KeyError", "IndexError"}
  /\ Len(Calls) = k
  /\ \A i \in 0..(k - 1) : Calls[i + 1].key = KeyAt(i) /\ Stored(i)
  /\ \A i \in k..(RunLen - 1) : Empty(i)

C9_AsStated ==
  (call.op = "run_tasks" /\ SetupDone /\ Finished) =>
    \A k \in Positions : BadPlaceholder(TitleAt(k)) => FailsAtTitleOf(k)

(***************************************************************************)
(* C9 amended: if the title of the task at position k has a placeholder    *)
(* other than the four recognised fields and the tasks at positions 0..k-1 *)
(* execute successfully (their titles render, their callables return),     *)
(* the run fails exactly when task k is about to execute: tasks 0..k-1     *)
(* have executed and keep their results, the callable of k is never        *)
(* invoked, no later task runs, and the error reaches the caller.          *)
(***************************************************************************)
C9_FailsAtBadTitle ==
  (call.op = "run_tasks" /\ SetupDone) =>
    \A k \in Positions :
      (/\ BadPlaceholder(TitleAt(k))
       /\ \A i \in 0..(k - 1) :
            TitleRenders(i) /\ ~Raises(FnAt(i), ParamsAt(i)))
      => /\ Len(Calls) <= k
         /\ pc # "returned"
         /\ Finished => FailsAtTitleOf(k)

C9_Witness ==
  /\ call.op = "run_tasks" /\ pc = "raised" /\ err = "KeyError"
  /\ Len(Calls) = 1
  /\ SetupDone
  /\ RunLen >= 3
  /\ BadPlaceholder(TitleAt(1))
  /\ ~BadPlaceholder(TitleAt(0))
  /\ FailsAtTitleOf(1)
  /\ registry.func[KeyAt(0)].result # None

(***************************************************************************)
(* Vocabulary of the properties about run_group.                           *)
(***************************************************************************)
GroupRun == call.op = "run_group" /\ call.group_id \in DOMAIN registry.group
Members == registry.group[call.group_id]
GivenParams == call.task_params
\* the parameter mapping run_group is to pair with the member at position i
ExpectedParams(i) ==
  IF i < Len(GivenParams) THEN GivenParams[i + 1] ELSE EmptyParams
MembersAreTasks ==
  \A i \in 1..Len(Members) : NameOf(Members[i]) \in DOMAIN registry.title

DescriptorsOf(KeyOf(_, _)) ==
  /\ Cardinality(DOMAIN registry.func) = Len(Members)
  /\ \A i \in 0..(Len(Members) - 1) :
       LET k == KeyOf(Members[i + 1], StrOfInt(i))
       IN  /\ k \in DOMAIN registry.func
           /\ registry.func[k].function = Members[i + 1]
           /\ registry.func[k].run_id = call.group_id
           /\ registry.func[k].seq_id = StrOfInt(i)

DottedKey(name, index) == <<name, ".", index, ".">> \o call.group_id

C7_AsStated ==
  (GroupRun /\ MembersAreTasks) => DescriptorsOf(DottedKey)

(***************************************************************************)
(* C7 amended: run_group(group_id, params) creates exactly one             *)
(* TaskDescriptor per group member, each with run identifier group_id and  *)
(* sequence identifier equal to the member's position index; the keys of   *)
(* the run are functionName.index.group_id when group_id is not empty and  *)
(* functionName.index when group_id is the empty string.                   *)
(***************************************************************************)
GroupKey(name, index) ==
  IF call.group_id = <<>>
    THEN <<name, ".", index>>
    ELSE <<name, ".", index, ".">> \o call.group_id

C7_OneDescriptorPerMember ==
  (GroupRun /\ MembersAreTasks) => DescriptorsOf(GroupKey)

C7_Witness ==
  /\ GroupRun /\ MembersAreTasks
  /\ Len(Members) >= 2
  /\ call.group_id # <<>>
  /\ DescriptorsOf(GroupKey)
  /\ pc = "returned"

(***************************************************************************)
(* C10: registering a group under an identifier that already has a group   *)
(* fails and leaves the group table unchanged, so no group's member list   *)
(* holds callables from two separate group(group_id) registrations.        *)
(***************************************************************************)
C10_NoMixedGroups ==
  /\ (call.op = "group" /\ call.group_id \in DOMAIN registry.group)
       => err = "ValueError"
  /\ \A gid \in DOMAIN groupOrigin :
       \A a, b \in 1..Len(groupOrigin[gid]) :
         groupOrigin[gid][a] = groupOrigin[gid][b]

(***************************************************************************)
(* C4: adding a TaskDescriptor whose key already exists in the task table  *)
(* fails with a duplicate-key error and leaves the existing descriptor in  *)
(* place.                                                                  *)
(***************************************************************************)
C4_DuplicateKeyFails ==
  [][(call'.op = "add_task" /\ call'.key \in DOMAIN registry.func)
       => (err' = "ValueError" /\ registry'.func = registry.func)]_vars

(***************************************************************************)
(* C5: runs in distinct execution contexts never observe each other's      *)
(* registry entries: what context_get returns in a context was added by    *)
(* context_add in that context, and a context that added nothing sees      *)
(* empty task, title and group tables.                                     *)
(***************************************************************************)
C5_ContextsIsolated ==
  \A c \in Ctxs :
    \A tbl \in {CTX_FN_BASE, CTX_TI_BASE, CTX_GR_BASE} :
      \A k \in DOMAIN context_get(registry, c, tbl, <<>>).val :
        <<tbl, k, c>> \in addedIn

(***************************************************************************)
(* C8: constructing a TaskDescriptor for a function that has no entry in   *)
(* the title table succeeds and gives the descriptor the function's own    *)
(* name as title; a function with a registered title gets that title.      *)
(***************************************************************************)
C8_TitleDefaultsToName ==
  (call.op = "run_tasks" /\ RunLen > 0) =>
    \A i \in Positions :
      IF NameOf(FnAt(i)) \in DOMAIN registry.title
        THEN (SetupDone /\ trace = <<>> /\ batch = <<>>)
               => registry.func[KeyAt(i)].title = TitleAt(i)
        ELSE /\ KeyAt(i) \in DOMAIN registry.func
             /\ registry.func[KeyAt(i)].title = NameOf(FnAt(i))

(***************************************************************************)
(* C18: within one run_tasks call the keys of the N created descriptors    *)
(* are pairwise distinct, also when the same callable occurs at several    *)
(* positions: after setup the task table holds N entries of the run, one   *)
(* per position with that position's callable and parameters, and the      *)
(* graph has N vertices.                                                   *)
(***************************************************************************)
C18_KeysDistinct ==
  (call.op = "run_tasks" /\ SetupDone) =>
    /\ Cardinality(DOMAIN registry.func) = RunLen
    /\ Cardinality(dag.vertices) = RunLen
    /\ \A i, j \in Positions : i # j => KeyAt(i) # KeyAt(j)
    /\ \A i \in Positions :
         \E k \in DOMAIN registry.func :
           /\ registry.func[k].seq_id = StrOfInt(i)
           /\ registry.func[k].function = FnAt(i)
           /\ registry.func[k].parameters = ParamsAt(i)
           /\ registry.func[k].run_id = RunId

C18_Witness ==
  /\ call.op = "run_tasks" /\ SetupDone
  /\ RunLen >= 3
  /\ FnAt(0) = FnAt(1) /\ FnAt(1) = FnAt(2)
  /\ ParamsAt(0) # ParamsAt(1)
  /\ Cardinality(DOMAIN registry.func) = 3

(***************************************************************************)
(* C19: when run_group is given a parameter list longer than the member    *)
(* list of the group, the surplus positions pair an empty mapping, in the  *)
(* place of a callable, with their parameters: the call raises while       *)
(* descriptors are constructed and no member is executed, and the          *)
(* descriptors of the positions before the surplus are in the task table.  *)
(***************************************************************************)
C19_LongParamList ==
  (GroupRun /\ Len(GivenParams) > Len(Members)) =>
    /\ RunLen = Len(GivenParams)
    /\ \A i \in Len(Members)..(RunLen - 1) :
         FnAt(i) = FillFn /\ ParamsAt(i) = GivenParams[i + 1]
    /\ pc = "raised"
    /\ ~SetupDone
    /\ trace = <<>>
    /\ MembersAreTasks =>
         /\ err = "AttributeError"
         /\ Cardinality(DOMAIN registry.func) = Len(Members)
         /\ \A i \in 0..(Len(Members) - 1) :
              /\ KeyAt(i) \in DOMAIN registry.func
              /\ registry.func[KeyAt(i)].function = Members[i + 1]
              /\ registry.func[KeyAt(i)].parameters = GivenParams[i + 1]
              /\ registry.func[KeyAt(i)].result = None

C19_Witness ==
  /\ GroupRun /\ MembersAreTasks
  /\ Len(Members) = 2
  /\ Len(GivenParams) = 3
  /\ pc = "raised" /\ err = "AttributeError"
  /\ Cardinality(DOMAIN registry.func) = 2
  /\ trace = <<>>

(***************************************************************************)
(* Vocabulary of the properties about the descriptors of a run.            *)
(***************************************************************************)
InRun == call.op = "run_tasks" /\ SetupDone
CallOf(k, d) == [ev |-> "call", key |-> k, params |-> d.parameters]
WriteOf(k) == [ev |-> "write", key |-> k, params |-> EmptyParams]
Called(k) == \E j \in 1..Len(trace) : IsCall(trace[j]) /\ trace[j].key = k
Written(k) == \E j \in 1..Len(trace) : IsWrite(trace[j]) /\ trace[j].key = k
\* the steps of the run, recognised by what they add to the trace
IsExecuteOf(k, d) == trace' = Append(trace, CallOf(k, d))
IsReportFinishOf(k) == trace' = Append(trace, WriteOf(k))
\* the step changes nothing of descriptor d but its result, written by
\* report_finish for the first time and after the callable was invoked
OnlyResultWritten(k, d, d2) ==
  /\ d2 = [d EXCEPT !.result = d2.result]
  /\ IsReportFinishOf(k)
  /\ Called(k)
  /\ ~Written(k)

(***************************************************************************)
(* C14 as stated: a descriptor created by a run is mutated exactly once    *)
(* during that run, by report_finish writing its result; no other step of  *)
(* the run, in particular execute, changes any field of a descriptor, and  *)
(* the result stays None until the descriptor's own callable has returned. *)
(***************************************************************************)
C14_AsStated ==
  [][InRun =>
       \A k \in DOMAIN registry.func :
         /\ k \in DOMAIN registry'.func
         /\ registry'.func[k] # registry.func[k]
              => OnlyResultWritten(k, registry.func[k], registry'.func[k])
         /\ registry'.func[k].result # None
              => \E j \in 1..Len(trace') :
                   IsCall(trace'[j]) /\ trace'[j].key = k]_vars

(***************************************************************************)
(* C14 amended: a descriptor created by a run is mutated at most twice     *)
(* during that run: by execute, which replaces a title that has            *)
(* placeholder syntax by its rendering right before the callable is        *)
(* invoked, and by report_finish, which writes the result, once and only   *)
(* after the descriptor's own callable has returned; no other step changes *)
(* a descriptor, no other field changes, the result stays None until the   *)
(* descriptor's own callable has returned, and when the run returns every  *)
(* descriptor has had its result written exactly once.                     *)
(***************************************************************************)
OnlyTitleRendered(k, d, d2) ==
  /\ d2 = [d EXCEPT !.title = d2.title]
  /\ Contains(d.title, "{") /\ Contains(d.title, "}")
  /\ Format(d.title, TitleFields(d)) = [err |-> "ok", out |-> d2.title]
  /\ IsExecuteOf(k, d)
  /\ ~Called(k)

C14_TitleAndResultOnly ==
  [][InRun =>
       /\ \A k \in DOMAIN registry.func :
            /\ k \in DOMAIN registry'.func
            /\ registry'.func[k] # registry.func[k]
                 => \/ OnlyResultWritten(k, registry.func[k], registry'.func[k])
                    \/ OnlyTitleRendered(k, registry.func[k], registry'.func[k])
            /\ registry'.func[k].result # None
                 => \E j \in 1..Len(trace') :
                      IsCall(trace'[j]) /\ trace'[j].key = k
       /\ pc' = "returned" =>
            \A i \in Positions :
              Cardinality({j \in 1..Len(trace') :
                             trace'[j] = WriteOf(KeyAt(i))}) = 1]_vars

C14_Witness ==
  /\ InRun /\ pc = "returned" /\ RunLen >= 2
  /\ TitleAt(0) = TitleKey
  /\ registry.func[KeyAt(0)].title = KeyAt(0)
  /\ registry.func[KeyAt(0)].result # None
  /\ Written(KeyAt(1))

(***************************************************************************)
(* Vocabulary of the properties about the state of a run and its vertices. *)
(***************************************************************************)
\* vertices whose execute() has returned
Processed == Range(final) \cup {results[j][1] : j \in 1..Len(results)}
\* the vertex whose execute() raised
FailedAt(k) ==
  /\ pc = "raised" /\ SetupDone
  /\ batch # <<>> /\ Head(batch) = KeyAt(k)
VState(k) ==
  IF FailedAt(k) THEN "Failed"
  ELSE IF KeyAt(k) \in Processed THEN "Completed"
  ELSE "Pending"
CallCount(k) ==
  Cardinality({j \in 1..Len(trace) : IsCall(trace[j]) /\ trace[j].key = k})

RunCompleted ==
  /\ pc = "returned"
  /\ \A i \in Positions :
       /\ VState(i) = "Completed"
       /\ CallCount(KeyAt(i)) = 1
       /\ Written(KeyAt(i)) /\ Stored(i)
RunFailed ==
  /\ pc = "raised" /\ SetupDone
  /\ \E k \in Positions :
       /\ VState(k) = "Failed"
       /\ \A i \in 0..(k - 1) :
            /\ VState(i) = "Completed"
            /\ CallCount(KeyAt(i)) = 1
            /\ Written(KeyAt(i)) /\ Stored(i)
       /\ \A i \in (k + 1)..(RunLen - 1) :
            /\ VState(i) = "Pending"
            /\ ~Called(KeyAt(i))
            /\ Empty(i)
\* run_tasks raised in its setup loop: there is no graph and no vertex
RunRejected ==
  /\ pc = "raised" /\ ~SetupDone
  /\ trace = <<>> /\ final = <<>> /\ batch = <<>>

(***************************************************************************)
(* C15 as stated: every run of run_tasks over a finite list of tasks ends  *)
(* in exactly one of two states: Completed, where every vertex has run     *)
(* once and has its result recorded, or Failed, where exactly one vertex   *)
(* is Failed, all vertices before it are Completed and all after it are    *)
(* still Pending.                                                          *)
(***************************************************************************)
C15_AsStated ==
  (call.op = "run_tasks" /\ Finished /\ AllRegistered)
  => (RunCompleted \/ RunFailed)

(***************************************************************************)
(* C15 amended: every run of run_tasks over a finite task list whose       *)
(* callables each terminate eventually ends in exactly one of three        *)
(* states: Rejected, where run_tasks raised during setup and no vertex     *)
(* was ever dispatched; Completed, where every vertex went Pending ->      *)
(* Running -> Completed and has its result recorded; or Failed, where      *)
(* exactly one vertex is Failed, all vertices before it are Completed and  *)
(* all after it are still Pending. No vertex ever leaves Completed or      *)
(* Failed or is run twice, and nothing happens after the run has ended.    *)
(***************************************************************************)
C15_RunEnds ==
  /\ [](call.op = "run_tasks" =>
         /\ Finished => (RunRejected \/ RunCompleted \/ RunFailed)
         /\ \A i \in Positions : SetupDone => CallCount(KeyAt(i)) <= 1)
  /\ [][call.op = "run_tasks" =>
          /\ ~Finished
          /\ \A i \in Positions :
               (SetupDone /\ VState(i) \in {"Completed", "Failed"})
                 => VState(i)' = VState(i)]_vars
  /\ (call.op = "run_tasks") ~> Finished

C15_Witness ==
  /\ call.op = "run_tasks" /\ RunLen >= 3
  /\ RunFailed
  /\ VState(0) = "Completed" /\ VState(1) = "Failed" /\ VState(2) = "Pending"
  /\ err = "CallableError"

(***************************************************************************)
(* C11 as stated: context_get(table, key) raises a not-found error when    *)
(* table is not one of the three registry tables or when key is supplied   *)
(* and absent from that table, returns the stored entry when key is        *)
(* present, returns the whole table when key is omitted, and never changes *)
(* the registry.                                                           *)
(***************************************************************************)
Tables == {CTX_FN_BASE, CTX_TI_BASE, CTX_GR_BASE}

C11_AsStated ==
  call.op = "context_get" =>
    /\ registry = call.before
    /\ IF call.table \notin Tables
         THEN err = "KeyError"
       ELSE IF ~call.given
         THEN err = "ok" /\ ret = registry[call.table]
       ELSE IF call.obj_key \notin DOMAIN registry[call.table]
         THEN err = "KeyError"
       ELSE err = "ok" /\ ret = registry[call.table][call.obj_key]

(***************************************************************************)
(* C11 amended: context_get(table, key) raises a not-found error when      *)
(* table is not one of the three registry tables or when a non-empty key   *)
(* is supplied and absent from that table, returns the stored entry when a *)
(* non-empty key is present, returns the whole table when key is omitted   *)
(* or is the empty string, and never changes the registry.                 *)
(***************************************************************************)
C11_GetContract ==
  call.op = "context_get" =>
    /\ registry = call.before
    /\ IF call.table \notin Tables
         THEN err = "KeyError"
       ELSE IF ~call.given \/ call.obj_key = <<>>
         THEN err = "ok" /\ ret = registry[call.table]
       ELSE IF call.obj_key \notin DOMAIN registry[call.table]
         THEN err = "KeyError"
       ELSE err = "ok" /\ ret = registry[call.table][call.obj_key]

C11_Witness ==
  /\ call.op = "context_get" /\ call.given
  /\ call.table = CTX_FN_BASE
  /\ call.obj_key = <<"greet", ".", "0">>
  /\ call.obj_key \in DOMAIN registry.func
  /\ <<"shout", ".", "0">> \in DOMAIN registry.func
  /\ err = "ok"
  /\ ret = registry.func[call.obj_key]

(***************************************************************************)
(* C12: whenever report_finish is invoked with the batch of vertices that  *)
(* completed in one traversal step of execute_dag, the result of every     *)
(* vertex of the batch is stored in that vertex's registry descriptor,     *)
(* also when the batch holds more than one vertex.                         *)
(***************************************************************************)
C12_BatchStored ==
  [][(call.op = "execute_dag" /\ pc = "process" /\ batch = <<>>
        /\ pc' = "loop")
       => \A j \in 1..Len(results) :
            registry'.func[results[j][1]].result = results[j][2]]_vars

(***************************************************************************)
(* C13: for any acyclic graph of registered task keys passed to            *)
(* execute_dag, a vertex is dispatched to execute only after every one of  *)
(* its predecessors has completed and the completion of that predecessor   *)
(* (its result) has been recorded in the registry.                         *)
(***************************************************************************)
C13_PredecessorsRecorded ==
  call.op = "execute_dag" =>
    \A j \in 1..Len(trace) :
      IsCall(trace[j]) =>
        \A u \in dag.vertices :
          <<u, trace[j].key>> \in dag.edges =>
            \E a, b \in 1..(j - 1) :
              /\ a < b
              /\ IsCall(trace[a]) /\ trace[a].key = u
              /\ trace[b] = WriteOf(u)

(***************************************************************************)
(* C16: configuration errors of run_tasks are raised during setup and      *)
(* never during execution: if the list is empty, or an element is a tuple  *)
(* with more than two items or without the parameter mapping, or a         *)
(* descriptor cannot be constructed, run_tasks raises before the callable  *)
(* of any task of the list has been invoked, the well-formed ones before   *)
(* the bad element included.                                               *)
(***************************************************************************)
WellFormed(i) == Len(RunList[i + 1]) = 2
\* TaskConfig.__init__ raises for the callable at position i
Unconstructible(i) ==
  \/ FnAt(i) = FillFn
  \/ NameOf(FnAt(i)) \notin DOMAIN registry.title
ConfigError ==
  \/ RunLen = 0
  \/ \E i \in Positions : ~WellFormed(i) \/ Unconstructible(i)

C16_ConfigErrorsAtSetup ==
  (call.op = "run_tasks" /\ ConfigError) =>
    /\ pc = "raised"
    /\ err \in {"TypeError", "ValueError", "KeyError", "AttributeError"}
    /\ ~SetupDone
    /\ trace = <<>>
    /\ \A k \in DOMAIN registry.func : registry.func[k].result = None

C16_Witness ==
  /\ call.op = "run_tasks" /\ RunLen = 3
  /\ WellFormed(0) /\ WellFormed(1)
  /\ ~Unconstructible(0) /\ ~Unconstructible(1)
  /\ Len(RunList[3]) = 3
  /\ pc = "raised" /\ err = "ValueError"
  /\ Cardinality(DOMAIN registry.func) = 2
  /\ trace = <<>>

(***************************************************************************)
(* C17: title rendering in execute is idempotent: executing the rendering  *)
(* step a second time on a descriptor whose title was already rendered,    *)
(* with the same key, function name, run id and sequence id, succeeds and  *)
(* leaves the title equal to the first rendering, for every title made     *)
(* only of recognised placeholders and every value of the four fields.     *)
(***************************************************************************)
\* every brace of t belongs to a field "{" name "}" with a recognised name
OnlyRecognised(t) ==
  \A i \in 1..Len(t) :
    /\ t[i] = "{" => /\ i + 2 <= Len(t)
                     /\ t[i + 1] \in Recognised
                     /\ t[i + 2] = "}"
    /\ t[i] = "}" => /\ i > 2
                     /\ t[i - 1] \in Recognised
                     /\ t[i - 2] = "{"

C17_RenderIdempotent ==
  (call.op = "execute" /\ call.earlier > 0 /\ OnlyRecognised(call.original))
  => /\ err \notin RenderErrors
     /\ registry.func[call.key].title = call.before

====
